---- MODULE Spec2Model ----
(***************************************************************************)
(* Model of the settings reconciliation core and the readiness waiters of  *)
(* the Supabase Terraform provider (internal/provider).                    *)
(*                                                                         *)
(* Documents.  A Go struct handed to parseConfig is a function from its    *)
(* field names (json tags) to Go values  [t, v, f]:                        *)
(*   t = "nil"     nil pointer                                             *)
(*   t = "unspec"  nullable.Nullable that was not specified                *)
(*   t = "null"    nullable.Nullable specified as null                     *)
(*   t = "val"     a scalar (pointer to a scalar, Nullable with a value,   *)
(*                 or a plain field), v holds it                           *)
(*   t = "struct"  a struct or non-nil pointer to one, f holds its fields  *)
(*   t = "nilslice" / "slice"  a []string, l holds its elements            *)
(* A JSON document (map[string]any, and the jsontypes.Normalized string it *)
(* is marshalled to) is a function from Keys to JSON values [t, v, f]:     *)
(*   t = "absent"  the key is not in the map                               *)
(*   t = "null", "val" (v), "obj" (f: the nested map), "list" (l)          *)
(***************************************************************************)
EXTENDS Integers, Sequences, FiniteSets, TLC

VARIABLES
    \* -- pure-function harness (parseConfig / pickConfig / copyConfig)
    full,       \* the Go struct given to parseConfig
    partial,    \* the stored JSON document given to parseConfig
    omit,       \* whether the nested struct's json tags carry omitempty
    picked,     \* parseConfig(partial, full): the pick path
    picked2,    \* parseConfig(picked, full)
    copied,     \* parseConfig(null, full): the copy path
    fpc,        \* position of the harness
    \* -- settings resource (SettingsResource and its category functions)
    state,      \* the Terraform state: category -> stored document or null
    phase,      \* "absent" (no state) or "present"
    op,         \* the handler that ran last
    plan,       \* req.Plan of the last Create / Update
    calls,      \* the remote calls the last handler issued, in order, each
                \* with the status and document the remote answered
    err,        \* resp.Diagnostics.HasError() of the last handler
    secret,     \* the sensitive value carried by the last successful auth
                \* write, while only reads followed it ("none" otherwise)
    writes,     \* Create, Update and ImportState requests served so far
    \* -- readiness waiters (waitForProjectActive, waitForServicesActive)
    wpc,        \* "idle", "polling", "done" or "failed"
    seen,       \* the answers the project endpoint gave to the polls so far
    why,        \* the error the wait ended with ("" while there is none)
    notfoundTick, \* StateChangeConf's count of consecutive nil results
    polls,      \* polls of the health endpoint made by this wait
    snap,       \* what the health endpoint answered to the last poll
    class,      \* how the last Refresh classified each service's record
    \* -- project resource (ProjectResource)
    pstate,     \* the Terraform state of the project, or NoProject
    pop,        \* the handler that ran last
    pplan,      \* req.Plan of the last Create / Update
    pcalls,     \* the remote calls the last handler issued, in order
    perr,       \* resp.Diagnostics.HasError() of the last handler
    pops        \* Create and Update requests served so far

fvars == <<full, partial, omit, picked, picked2, copied, fpc>>
svars == <<state, phase, op, plan, calls, err, secret, writes>>

wvars == <<wpc, seen, why, notfoundTick, polls, snap, class>>

pvars == <<pstate, pop, pplan, pcalls, perr, pops>>

vars == <<fvars, svars, wvars, pvars>>

----------------------------------------------------------------------------
(* Value domains *)

Scalars == {"v1", "v2"}
Zero == "zero"                  \* the Go zero value of a scalar type
NoV == "-"
\* "big" is a JSON integer above 2^53 that no float64 holds (9007199254740993),
\* "bigr" the float64 nearest to it (9007199254740992)
Big == "big"
BigRounded == "bigr"

Fields == {"a", "n"}            \* json tags of the harness struct's fields
\* "u" is a field of no struct; "s" stands for a sensitive auth field
\* (smtp_pass), "j" for jwt_secret, "r" for restrictions
Keys == {"a", "n", "u", "s", "j", "r"}
SubFields == {"a"}              \* json tags of a nested struct's fields
SubKeys == SubFields \cup {"u"}

\* level 0: values inside a nested object; level 1: top-level values
JAbsent0 == [t |-> "absent", v |-> NoV, f |-> NoV, l |-> <<>>]
NoFields == [k \in SubKeys |-> JAbsent0]
Blank(lvl) == IF lvl = 0 THEN NoV ELSE NoFields

JAbsent(lvl) == [t |-> "absent", v |-> NoV, f |-> Blank(lvl), l |-> <<>>]
JNull(lvl) == [t |-> "null", v |-> NoV, f |-> Blank(lvl), l |-> <<>>]
JVal(x, lvl) == [t |-> "val", v |-> x, f |-> Blank(lvl), l |-> <<>>]
JObj(fs) == [t |-> "obj", v |-> NoV, f |-> fs, l |-> <<>>]
JList(xs) == [t |-> "list", v |-> NoV, f |-> NoFields, l |-> xs]

GNil(lvl) == [t |-> "nil", v |-> NoV, f |-> Blank(lvl), l |-> <<>>]
GUnspec(lvl) == [t |-> "unspec", v |-> NoV, f |-> Blank(lvl), l |-> <<>>]
GNull(lvl) == [t |-> "null", v |-> NoV, f |-> Blank(lvl), l |-> <<>>]
GVal(x, lvl) == [t |-> "val", v |-> x, f |-> Blank(lvl), l |-> <<>>]
GStruct(fs) == [t |-> "struct", v |-> NoV, f |-> fs, l |-> <<>>]
GNilSlice == [t |-> "nilslice", v |-> NoV, f |-> NoFields, l |-> <<>>]
GSlice(xs) == [t |-> "slice", v |-> NoV, f |-> NoFields, l |-> xs]

EmptyDoc == [k \in Keys |-> JAbsent(1)]

KeySet(doc) == {k \in DOMAIN doc : doc[k].t # "absent"}

----------------------------------------------------------------------------
(* encoding/json.Marshal of the values pickConfig/copyConfig leave in the  *)
(* map.  A nil pointer and a null Nullable give null; an unspecified       *)
(* Nullable stored in a map has no omitempty to drop it and gives the zero *)
(* value.  Inside a struct, omitempty (om) drops nil and unspecified       *)
(* fields.                                                                 *)

MarshalLeaf(g, lvl) ==
    CASE g.t = "nil" -> JNull(lvl)
      [] g.t = "null" -> JNull(lvl)
      [] g.t = "nilslice" -> JNull(lvl)
      [] g.t = "slice" -> JList(g.l)
      [] g.t = "unspec" -> JVal(Zero, lvl)
      [] OTHER -> JVal(g.v, lvl)

MarshalField(g, om) ==
    IF om /\ g.t \in {"nil", "unspec"} THEN JAbsent0 ELSE MarshalLeaf(g, 0)

Marshal(g, om) ==
    IF g.t = "struct"
    THEN JObj([k \in SubKeys |->
                 IF k \in DOMAIN g.f THEN MarshalField(g.f[k], om) ELSE JAbsent0])
    ELSE MarshalLeaf(g, 1)

MarshalAt(g, lvl, om) == IF lvl = 0 THEN MarshalLeaf(g, 0) ELSE Marshal(g, om)

----------------------------------------------------------------------------
(* field.Unmarshal(&partial) in parseConfig: json.Unmarshal into a         *)
(* map[string]any.  Every JSON number becomes a float64; strings, booleans *)
(* and null come back as they were.                                        *)

Float64(x) == IF x = Big THEN BigRounded ELSE x

UnmarshalLeaf(j) == IF j.t = "val" THEN [j EXCEPT !.v = Float64(@)] ELSE j

UnmarshalMap(d) ==
    [k \in DOMAIN d |->
        IF d[k].t = "obj"
        THEN [d[k] EXCEPT !.f = [i \in DOMAIN @ |-> UnmarshalLeaf(@[i])]]
        ELSE UnmarshalLeaf(d[k])]

----------------------------------------------------------------------------
(* pickConfig, with the json.Marshal parseConfig applies to its result.    *)

RECURSIVE pickConfig(_, _, _, _)

\* variant: the recursive call is handed the enclosing struct
pickConfigWrongSource(source, target, lvl, om) ==
    [k \in DOMAIN target |->
        IF k \notin DOMAIN source \/ target[k].t = "absent"
        THEN target[k]
        ELSE IF target[k].t = "obj" /\ source[k].t = "nil"
        THEN target[k]
        ELSE IF target[k].t = "obj" /\ source[k].t = "struct"
        THEN JObj(pickConfig(source, target[k].f, 0, om))
        ELSE MarshalAt(source[k], lvl, om)]

\* variant: no recursion, every picked key is overwritten
pickConfigFlat(source, target, lvl, om) ==
    [k \in DOMAIN target |->
        IF k \notin DOMAIN source \/ target[k].t = "absent"
        THEN target[k]
        ELSE MarshalAt(source[k], lvl, om)]

\* variant: a nil pointer overwrites a nested map
pickConfigNilOverwrite(source, target, lvl, om) ==
    [k \in DOMAIN target |->
        IF k \notin DOMAIN source \/ target[k].t = "absent"
        THEN target[k]
        ELSE IF target[k].t = "obj" /\ source[k].t = "struct"
        THEN JObj(pickConfig(source[k].f, target[k].f, 0, om))
        ELSE MarshalAt(source[k], lvl, om)]

pickConfig(source, target, lvl, om) ==
    [k \in DOMAIN target |->
        IF k \notin DOMAIN source \/ target[k].t = "absent"
        THEN target[k]
        ELSE IF target[k].t = "obj" /\ source[k].t = "nil"
        THEN target[k]
        ELSE IF target[k].t = "obj" /\ source[k].t = "struct"
        THEN JObj(pickConfig(source[k].f, target[k].f, 0, om))
        ELSE MarshalAt(source[k], lvl, om)]

\* variant: a Nullable set to null is copied
copyConfigKeepNull(source, om) ==
    [k \in Keys |->
        IF k \in DOMAIN source /\ source[k].t \notin {"nil", "unspec"}
        THEN Marshal(source[k], om)
        ELSE JAbsent(1)]

(* copyConfig into the empty map, marshalled.                              *)
copyConfig(source, om) ==
    [k \in Keys |->
        IF k \in DOMAIN source /\ source[k].t \notin {"nil", "unspec", "null"}
        THEN Marshal(source[k], om)
        ELSE JAbsent(1)]

NullDoc == [null |-> TRUE, d |-> EmptyDoc]
Stored(d) == [null |-> FALSE, d |-> d]

(* parseConfig: pick when the stored field unmarshals to a map, copy when  *)
(* it is null.  om tells whether the nested structs of config's type tag   *)
(* their fields omitempty.                                                 *)
parseConfigOf(field, config, om) ==
    IF field.null
    THEN Stored(copyConfig(config, om))
    ELSE Stored(pickConfig(config, UnmarshalMap(field.d), 1, om))

\* the API types of the settings categories tag optional fields omitempty
parseConfig(field, config) == parseConfigOf(field, config, TRUE)

----------------------------------------------------------------------------
(* Input domains of the harness *)

GoLeaves(lvl) == {GNil(lvl), GUnspec(lvl), GNull(lvl)} \cup {GVal(x, lvl) : x \in Scalars}
GoStructs == {GStruct(fs) : fs \in [SubFields -> GoLeaves(0)]}
GoValues == GoLeaves(1) \cup GoStructs

JLeaves(lvl) == {JAbsent(lvl), JNull(lvl), JVal("v1", lvl)}
JObjects == {JObj(fs) : fs \in [SubKeys -> JLeaves(0)]}
JValues == JLeaves(1) \cup JObjects

\* field "a" is a scalar, field "n" a scalar or a nested struct
FullDocs == {d \in [Fields -> GoValues] : d["a"].t # "struct"}
\* the stored document declares "a", "n" and the unknown key "u"
PartialDocs ==
    {[k \in Keys |-> IF k \in {"a", "n", "u"} THEN d[k] ELSE JAbsent(1)] :
        d \in {e \in [{"a", "n", "u"} -> JValues \cup {JVal(Big, 1)}] :
                  e["a"] \in JLeaves(1) /\ e["n"] \in JValues /\ e["u"].t # "obj"}}

FInit ==
    /\ full \in FullDocs
    /\ partial \in PartialDocs
    /\ omit \in BOOLEAN
    /\ picked = EmptyDoc
    /\ picked2 = EmptyDoc
    /\ copied = EmptyDoc
    /\ fpc = "start"

ApplyPick ==
    /\ fpc = "start"
    /\ picked' = parseConfigOf(Stored(partial), full, omit).d
    /\ fpc' = "picked"
    /\ UNCHANGED <<full, partial, omit, picked2, copied>>

ApplyPickAgain ==
    /\ fpc = "picked"
    /\ picked2' = parseConfigOf(Stored(picked), full, omit).d
    /\ fpc' = "repicked"
    /\ UNCHANGED <<full, partial, omit, picked, copied>>

ApplyCopy ==
    /\ fpc = "start"
    /\ copied' = parseConfigOf(NullDoc, full, omit).d
    /\ fpc' = "copied"
    /\ UNCHANGED <<full, partial, omit, picked, picked2>>

----------------------------------------------------------------------------
(* The settings resource *)

JsonCats == {"database", "api", "auth", "storage"}
RemoteCats == JsonCats \cup {"network"}
Cats == RemoteCats \cup {"pooler"}
\* the order in which Create, Read, Update and ImportState walk the categories
CatOrder == <<"database", "network", "api", "auth", "storage">>

SensitiveFields == {"s"}

\* json tags of the response struct of each category
RespFields(c) ==
    CASE c = "api" -> {"a", "j"}
      [] c = "auth" -> {"a", "s"}
      [] c = "network" -> {"v4", "v6"}
      [] OTHER -> {"a"}

\* json tags of the update body of each category
BodyFields(c) ==
    CASE c = "auth" -> {"a", "s"}
      [] c = "network" -> {"r"}
      [] OTHER -> {"a"}

(* Normalized.Unmarshal into the update body: json.Unmarshal fails when a  *)
(* declared field holds a value of the wrong JSON type; keys that are no   *)
(* field of the body are ignored.                                          *)
UnmarshalOK(c, d) ==
    \A k \in BodyFields(c) :
        IF k = "r" THEN d[k].t \in {"absent", "null", "list"}
        ELSE d[k].t \in {"absent", "null", "val"}

Unmarshal(c, d) ==
    [k \in BodyFields(c) |->
        CASE d[k].t = "absent" -> IF k = "r" THEN GNilSlice ELSE GUnspec(1)
          [] d[k].t = "null" -> IF k = "r" THEN GNilSlice ELSE GNull(1)
          [] d[k].t = "list" -> GSlice(d[k].l)
          [] OTHER -> GVal(d[k].v, 1)]

(* convertAuthResponse: json.Marshal of the response, json.Unmarshal into  *)
(* UpdateAuthConfigBody.  A Nullable the server left out is marshalled as  *)
(* the zero value (the response tags carry no omitempty) and comes back    *)
(* specified.                                                              *)
convertAuthResponse(resp) ==
    [k \in DOMAIN resp |->
        IF resp[k].t = "unspec" THEN GVal(Zero, 1) ELSE resp[k]]

\* variant: a sensitive field is copied only when the source specifies it
copySensitiveFieldsIfSet(source, target) ==
    [k \in DOMAIN target |->
        IF k \in SensitiveFields /\ source[k].t # "unspec" THEN source[k] ELSE target[k]]

\* variant: the sensitive fields are left as the remote returned them
copySensitiveFieldsKeep(source, target) == target

copySensitiveFields(source, target) ==
    [k \in DOMAIN target |->
        IF k \in SensitiveFields THEN source[k] ELSE target[k]]

\* the zero UpdateAuthConfigBody
ZeroBody(c) == [k \in BodyFields(c) |-> IF k = "r" THEN GNilSlice ELSE GUnspec(1)]

----------------------------------------------------------------------------
(* net.ParseCIDR, IP.IsPrivate and IP.To4 on the addresses of the model    *)

Cidrs == {"203.0.113.1/32", "198.51.100.1/32", "::/0", "10.0.0.1/32", "fd00::1/128", "bogus"}
ParseCIDROk(c) == c # "bogus"
IsPrivate(c) == c \in {"10.0.0.1/32", "fd00::1/128"}
IsV4(c) == c \in {"203.0.113.1/32", "198.51.100.1/32", "10.0.0.1/32"}

\* variant: each range is put in front of its list
RECURSIVE FilterSeqFront(_, _)
FilterSeqFront(xs, v4) ==
    IF xs = <<>> THEN <<>>
    ELSE IF IsV4(Head(xs)) = v4
         THEN FilterSeqFront(Tail(xs), v4) \o <<Head(xs)>>
         ELSE FilterSeqFront(Tail(xs), v4)

RECURSIVE FilterSeq(_, _)
FilterSeq(xs, v4) ==
    IF xs = <<>> THEN <<>>
    ELSE IF IsV4(Head(xs)) = v4
         THEN <<Head(xs)>> \o FilterSeq(Tail(xs), v4)
         ELSE FilterSeq(Tail(xs), v4)

\* variant: only the first range is validated
RestrictionsValidFirst(xs) ==
    xs # <<>> => (ParseCIDROk(xs[1]) /\ ~IsPrivate(xs[1]))

\* the loop of updateNetworkConfig returns at the first bad range
RestrictionsValid(xs) ==
    \A i \in 1..Len(xs) : ParseCIDROk(xs[i]) /\ ~IsPrivate(xs[i])

----------------------------------------------------------------------------
(* Remote answers.  A status is "ok" (200/201 with a document), "notfound" *)
(* (404), "notacceptable" (406), "fail" (any other status, no document) or *)
(* "transport" (the client returned an error).                             *)

Statuses == {"ok", "notfound", "notacceptable", "fail", "transport"}
\* a write only tells 200/201 from the rest
WriteStatuses == {"ok", "notfound", "fail", "transport"}
\* variant: only 404 counts as an orphan
OrphanNotFoundOnly(st) == st = "notfound"
Orphan(st) == st \in {"notfound", "notacceptable"}

\* one category function's outcome
Out(doc, e, cs) == [doc |-> doc, err |-> e, calls |-> cs]
Call(c, m, body, st, resp) ==
    [c |-> c, m |-> m, body |-> body, st |-> st, resp |-> IF st = "ok" THEN resp ELSE <<>>]

(* readDatabaseConfig, readApiConfig, readAuthConfig, readStorageConfig    *)
readJsonConfig(c, field, st, resp) ==
    LET call == <<Call(c, "GET", <<>>, st, resp)>> IN
    IF st = "transport" THEN Out(field, TRUE, call)
    ELSE IF Orphan(st) THEN Out(field, FALSE, call)
    ELSE IF st # "ok" THEN Out(field, TRUE, call)
    ELSE IF c = "api"
    THEN Out(parseConfig(field, [resp EXCEPT !["j"] = GNil(1)]), FALSE, call)
    ELSE IF c = "auth"
    THEN IF ~field.null /\ ~UnmarshalOK(c, field.d)
         THEN Out(field, TRUE, call)
         ELSE LET stateBody == IF field.null THEN ZeroBody(c) ELSE Unmarshal(c, field.d)
                  resultBody == copySensitiveFields(stateBody, convertAuthResponse(resp))
              IN Out(parseConfig(field, resultBody), FALSE, call)
    ELSE Out(parseConfig(field, resp), FALSE, call)

(* readNetworkConfig                                                       *)
readNetworkConfig(field, st, resp) ==
    LET call == <<Call("network", "GET", <<>>, st, resp)>>
        v4 == IF resp["v4"].t = "slice" THEN resp["v4"].l ELSE <<>>
        v6 == IF resp["v6"].t = "slice" THEN resp["v6"].l ELSE <<>>
        all == v4 \o v6
        network == [r |-> IF all = <<>> THEN GNilSlice ELSE GSlice(all)]
    IN
    IF st = "transport" THEN Out(field, TRUE, call)
    ELSE IF Orphan(st) THEN Out(field, FALSE, call)
    ELSE IF st # "ok" THEN Out(field, TRUE, call)
    ELSE Out(parseConfig(field, network), FALSE, call)

readConfig(c, field, st, resp) ==
    IF c = "network" THEN readNetworkConfig(field, st, resp)
    ELSE readJsonConfig(c, field, st, resp)

\* variant: the planned document is stored as it was submitted
updateJsonConfigKeepPlan(c, field, st, resp) ==
    IF ~UnmarshalOK(c, field.d) THEN Out(field, TRUE, <<>>)
    ELSE IF st # "ok"
    THEN Out(field, TRUE, <<Call(c, "WRITE", Unmarshal(c, field.d), st, resp)>>)
    ELSE Out(field, FALSE, <<Call(c, "WRITE", Unmarshal(c, field.d), st, resp)>>)

(* updateDatabaseConfig, updateApiConfig, updateAuthConfig                 *)
updateJsonConfig(c, field, st, resp) ==
    IF ~UnmarshalOK(c, field.d) THEN Out(field, TRUE, <<>>)
    ELSE
    LET body == Unmarshal(c, field.d)
        call == <<Call(c, "WRITE", body, st, resp)>>
    IN
    IF st # "ok" THEN Out(field, TRUE, call)
    ELSE IF c = "auth"
    THEN Out(parseConfig(field, copySensitiveFields(body, convertAuthResponse(resp))),
             FALSE, call)
    ELSE Out(parseConfig(field, resp), FALSE, call)

(* updateNetworkConfig; resp is the remote's answer to the write, which    *)
(* the function does not read beyond JSON201 being there                   *)
updateNetworkConfig(field, st, resp) ==
    IF ~UnmarshalOK("network", field.d) THEN Out(field, TRUE, <<>>)
    ELSE
    LET network == Unmarshal("network", field.d)
        body == [v4 |-> GSlice(FilterSeq(network["r"].l, TRUE)),
                 v6 |-> GSlice(FilterSeq(network["r"].l, FALSE))]
        call == <<Call("network", "WRITE", body, st, resp)>>
    IN
    IF ~RestrictionsValid(network["r"].l) THEN Out(field, TRUE, <<>>)
    ELSE IF st # "ok" THEN Out(field, TRUE, call)
    ELSE Out(parseConfig(field, network), FALSE, call)

(* updateStorageConfig: the write, then readStorageConfig on the plan      *)
updateStorageConfig(field, st, rst, resp) ==
    IF ~UnmarshalOK("storage", field.d) THEN Out(field, TRUE, <<>>)
    ELSE
    LET body == Unmarshal("storage", field.d)
        call == <<Call("storage", "WRITE", body, st, <<>>)>>
        back == readJsonConfig("storage", field, rst, resp)
    IN
    IF st # "ok" THEN Out(field, TRUE, call)
    ELSE Out(back.doc, back.err, call \o back.calls)

\* e: the remote's answers during one handler; e.wst / e.rst give the status
\* of the write and read endpoint of each category, e.doc the documents
updateConfig(c, field, e) ==
    CASE c = "network" -> updateNetworkConfig(field, e.wst[c], e.doc[c])
      [] c = "storage" -> updateStorageConfig(field, e.wst[c], e.rst[c], e.doc[c])
      [] OTHER -> updateJsonConfig(c, field, e.wst[c], e.doc[c])

RECURSIVE Concat(_, _)
Concat(f, i) == IF i > Len(CatOrder) THEN <<>> ELSE f[CatOrder[i]] \o Concat(f, i + 1)
----------------------------------------------------------------------------
(* Inputs of the settings handlers *)

MaxPlanned == 2     \* categories a plan declares at most
MaxFaults == 1      \* endpoints that fail during one handler at most
MaxWrites == 2      \* Create, Update and ImportState requests in one run at most

MkDoc(f) == [k \in Keys |-> IF k \in DOMAIN f THEN f[k] ELSE JAbsent(1)]

PlanDocs(c) ==
    CASE c = "database" ->
            {MkDoc("a" :> JVal("v2", 1) @@ "u" :> JVal("v1", 1)),
             MkDoc("a" :> JObj(NoFields))}
      [] c = "api" ->
            {MkDoc("a" :> JVal("v2", 1))}
      [] c = "auth" ->
            {MkDoc("a" :> JVal("v2", 1)),
             MkDoc("a" :> JVal("v2", 1) @@ "s" :> JVal("pw1", 1)),
             MkDoc("s" :> JVal("pw2", 1) @@ "u" :> JVal("v1", 1))}
      [] c = "storage" ->
            {MkDoc("a" :> JVal("v2", 1))}
      [] c = "network" ->
            {MkDoc("r" :> JList(<<"::/0", "198.51.100.1/32">>)),
             MkDoc("r" :> JList(<<"203.0.113.1/32", "10.0.0.1/32">>)),
             MkDoc("r" :> JList(<<"198.51.100.1/32", "bogus">>)),
             MkDoc("r" :> JList(<<"198.51.100.1/32", "::/0", "203.0.113.1/32">>)),
             MkDoc("r" :> JList(<<"::/0", "203.0.113.1/32">>))}
      [] OTHER ->
            {MkDoc("a" :> JVal("v2", 1))}

PlansOn(S) ==
    {[c \in Cats |-> IF c \in S THEN Stored(f[c]) ELSE NullDoc] :
        f \in {g \in [S -> UNION {PlanDocs(c) : c \in S}] : \A c \in S : g[c] \in PlanDocs(c)}}

Plans == UNION {PlansOn(S) : S \in {T \in SUBSET Cats : Cardinality(T) <= MaxPlanned}}

\* what the remote holds in each category, by scenario
RemoteDocs(x) ==
    [c \in RemoteCats |->
        CASE c = "api" ->
                [a |-> IF x = "v1" THEN GVal(x, 1) ELSE GNil(1),
                 j |-> GVal("jwt", 1)]
          [] c = "auth" ->
                [a |-> IF x = "v1" THEN GVal(x, 1)
                       ELSE IF x = "null" THEN GNull(1) ELSE GUnspec(1),
                 s |-> IF x = "v1" THEN GVal("leak", 1)
                       ELSE IF x = "null" THEN GNull(1) ELSE GUnspec(1)]
          [] c = "network" ->
                [v4 |-> IF x = "v1" THEN GSlice(<<"203.0.113.1/32">>)
                        ELSE IF x = "null" THEN GNilSlice ELSE GSlice(<<>>),
                 v6 |-> IF x = "v1" THEN GSlice(<<"::/0">>)
                        ELSE IF x = "omit" THEN GSlice(<<>>) ELSE GNilSlice]
          [] OTHER ->
                [a |-> IF x = "v1" THEN GVal(x, 1) ELSE GNil(1)]]

Scenarios == {"v1", "null", "omit"}

AllOk == [c \in RemoteCats |-> "ok"]

\* status maps in which at most n of the endpoints of S fail
StatusMaps(S, n, sts) ==
    {[c \in RemoteCats |-> IF c \in DOMAIN f THEN f[c] ELSE "ok"] :
        f \in UNION {[T -> sts \ {"ok"}] :
                        T \in {U \in SUBSET (S \cap RemoteCats) : Cardinality(U) <= n}}}

\* answers during a handler that only reads the categories of S
ReadEnvs(S) ==
    {[wst |-> AllOk, rst |-> m, doc |-> RemoteDocs(x)] :
        m \in StatusMaps(S, MaxFaults, Statuses), x \in Scenarios}

\* answers during a handler that writes the categories of S (storage is read
\* back after its write)
WriteEnvs(S) ==
    {[wst |-> w, rst |-> AllOk, doc |-> RemoteDocs(x)] :
        w \in StatusMaps(S, MaxFaults, WriteStatuses), x \in Scenarios}
    \cup
    {[wst |-> AllOk, rst |-> r, doc |-> RemoteDocs(x)] :
        r \in StatusMaps(S \cap {"storage"}, MaxFaults, Statuses), x \in Scenarios}

Declared(p) == {c \in Cats : ~p[c].null}
NoState == [c \in Cats |-> NullDoc]

----------------------------------------------------------------------------
(* The handlers *)

Skip(field) == Out(field, FALSE, <<>>)
AnyErr(out) == \E c \in RemoteCats : out[c].err
\* variant: only what the category functions returned is kept
DataNoPooler(out, rest) == [c \in Cats |-> IF c \in RemoteCats THEN out[c].doc ELSE NullDoc]
Data(out, rest) == [c \in Cats |-> IF c \in RemoteCats THEN out[c].doc ELSE rest[c]]
Calls(out) == Concat([c \in RemoteCats |-> out[c].calls], 1)

\* whether a finished handler leaves a sensitive value that a write carried
Carried(p, out) ==
    IF /\ ~p["auth"].null
       /\ p["auth"].d["s"].t = "val"
       /\ \E i \in 1..Len(out["auth"].calls) :
             /\ out["auth"].calls[i].m = "WRITE"
             /\ out["auth"].calls[i].body["s"] = GVal(p["auth"].d["s"].v, 1)
    THEN p["auth"].d["s"].v
    ELSE "none"

\* the categories the handlers walk before c
Before(c) ==
    {CatOrder[j] : j \in {i \in 1..Len(CatOrder) : \E k \in (i + 1)..Len(CatOrder) : CatOrder[k] = c}}

\* variant: Create returns at the first category that reports an error
CreateStops ==
    /\ phase = "absent"
    /\ op = "none"
    /\ writes < MaxWrites
    /\ \E p \in Plans : \E e \in WriteEnvs(Declared(p)) :
       \E all \in {[c \in RemoteCats |->
                     IF ~p[c].null THEN updateConfig(c, p[c], e) ELSE Skip(p[c])]} :
       \E out \in {[c \in RemoteCats |->
                     IF \E b \in Before(c) : all[b].err THEN Skip(p[c]) ELSE all[c]]} :
        /\ writes' = writes + 1
        /\ op' = "Create"
        /\ plan' = p
        /\ calls' = Calls(out)
        /\ err' = AnyErr(out)
        /\ IF AnyErr(out)
           THEN UNCHANGED <<state, phase>> /\ secret' = "none"
           ELSE /\ state' = Data(out, p)
                /\ phase' = "present"
                /\ secret' = Carried(p, out)

(* SettingsResource.Create                                                 *)
Create ==
    /\ phase = "absent"
    /\ op = "none"
    /\ writes < MaxWrites
    /\ \E p \in Plans : \E e \in WriteEnvs(Declared(p)) :
       \E out \in {[c \in RemoteCats |->
                     IF ~p[c].null THEN updateConfig(c, p[c], e) ELSE Skip(p[c])]} :
        /\ writes' = writes + 1
        /\ op' = "Create"
        /\ plan' = p
        /\ calls' = Calls(out)
        /\ err' = AnyErr(out)
        /\ IF AnyErr(out)
           THEN UNCHANGED <<state, phase>> /\ secret' = "none"
           ELSE /\ state' = Data(out, p)
                /\ phase' = "present"
                /\ secret' = Carried(p, out)

\* variant: every declared category is written, as Create does
ShouldWriteDeclared(planned, prior) == ~planned.null

(* The drift gate of SettingsResource.Update                               *)
ShouldWrite(planned, prior) == ~planned.null /\ planned # prior

(* SettingsResource.Update                                                 *)
Update ==
    /\ phase = "present"
    /\ op = "none"
    /\ writes < MaxWrites
    /\ \E p \in Plans : \E e \in WriteEnvs(Declared(p)) :
       \E out \in {[c \in RemoteCats |->
                     IF ShouldWrite(p[c], state[c])
                     THEN updateConfig(c, p[c], e) ELSE Skip(p[c])]} :
        /\ writes' = writes + 1
        /\ op' = "Update"
        /\ plan' = p
        /\ calls' = Calls(out)
        /\ err' = AnyErr(out)
        /\ UNCHANGED phase
        /\ IF AnyErr(out)
           THEN UNCHANGED state /\ secret' = "none"
           ELSE /\ state' = Data(out, p)
                /\ secret' = Carried(p, out)

\* variant: Read fetches every category, as ImportState does
ReadAll ==
    /\ phase = "present"
    /\ op = "none"
    /\ \E e \in ReadEnvs(RemoteCats) :
       \E out \in {[c \in RemoteCats |-> readConfig(c, state[c], e.rst[c], e.doc[c])]} :
        /\ op' = "Read"
        /\ calls' = Calls(out)
        /\ err' = AnyErr(out)
        /\ state' = IF AnyErr(out) THEN state ELSE Data(out, state)
        /\ UNCHANGED <<phase, plan, secret, writes>>

(* SettingsResource.Read                                                   *)
Read ==
    /\ phase = "present"
    /\ op = "none"
    /\ \E e \in ReadEnvs(Declared(state)) :
       \E out \in {[c \in RemoteCats |->
                     IF ~state[c].null
                     THEN readConfig(c, state[c], e.rst[c], e.doc[c])
                     ELSE Skip(state[c])]} :
        /\ op' = "Read"
        /\ calls' = Calls(out)
        /\ err' = AnyErr(out)
        /\ state' = IF AnyErr(out) THEN state ELSE Data(out, state)
        /\ UNCHANGED <<phase, plan, secret, writes>>

\* variant: Delete resets the database settings on the remote
DeleteResets ==
    /\ phase = "present"
    /\ op = "none"
    /\ op' = "Delete"
    /\ calls' = <<Call("database", "WRITE", <<>>, "ok", <<>>)>>
    /\ err' = FALSE
    /\ state' = NoState
    /\ phase' = "absent"
    /\ secret' = "none"
    /\ UNCHANGED <<plan, writes>>

(* SettingsResource.Delete                                                 *)
Delete ==
    /\ phase = "present"
    /\ op = "none"
    /\ op' = "Delete"
    /\ calls' = <<>>
    /\ err' = FALSE
    /\ state' = NoState
    /\ phase' = "absent"
    /\ secret' = "none"
    /\ UNCHANGED <<plan, writes>>

(* SettingsResource.ImportState                                            *)
ImportState ==
    /\ phase = "absent"
    /\ op = "none"
    /\ writes < MaxWrites
    /\ \E e \in ReadEnvs(RemoteCats) :
       \E out \in {[c \in RemoteCats |-> readConfig(c, NullDoc, e.rst[c], e.doc[c])]} :
        /\ writes' = writes + 1
        /\ op' = "ImportState"
        /\ calls' = Calls(out)
        /\ err' = AnyErr(out)
        /\ secret' = "none"
        /\ UNCHANGED plan
        /\ IF AnyErr(out)
           THEN UNCHANGED <<state, phase>>
           ELSE state' = Data(out, NoState) /\ phase' = "present"

(* The handler has returned: its request and response are gone, the state *)
(* it saved stays.                                                         *)
Return ==
    /\ op # "none"
    /\ op' = "none"
    /\ plan' = NoState
    /\ calls' = <<>>
    /\ err' = FALSE
    /\ UNCHANGED <<state, phase, secret, writes>>

SIdle ==
    /\ state = NoState
    /\ phase = "absent"
    /\ op = "none"
    /\ plan = NoState
    /\ calls = <<>>
    /\ err = FALSE
    /\ secret = "none"
    /\ writes = 0

FIdle ==
    /\ full = [k \in Fields |-> GNil(1)]
    /\ partial = EmptyDoc
    /\ omit = FALSE
    /\ picked = EmptyDoc
    /\ picked2 = EmptyDoc
    /\ copied = EmptyDoc
    /\ fpc = "idle"

\* no health poll made yet
NoSnap == [st |-> "none"]
NoClass == [x \in {} |-> "none"]

\* no project, no request served
NoProject == [id |-> ""]
PIdle ==
    /\ pstate = NoProject
    /\ pop = "none"
    /\ pplan = NoProject
    /\ pcalls = <<>>
    /\ perr = FALSE
    /\ pops = 0

WIdle ==
    /\ wpc = "idle"
    /\ seen = <<>>
    /\ why = ""
    /\ notfoundTick = 0
    /\ polls = 0
    /\ snap = NoSnap
    /\ class = NoClass

Init == FIdle /\ SIdle /\ WIdle /\ PIdle

Next ==
    \/ Create /\ UNCHANGED <<fvars, wvars, pvars>>
    \/ Update /\ UNCHANGED <<fvars, wvars, pvars>>
    \/ Read /\ UNCHANGED <<fvars, wvars, pvars>>
    \/ ImportState /\ UNCHANGED <<fvars, wvars, pvars>>
    \/ Delete /\ UNCHANGED <<fvars, wvars, pvars>>
    \/ Return /\ UNCHANGED <<fvars, wvars, pvars>>

Spec == Init /\ [][Next]_vars

FNext ==
    \/ ApplyPick /\ UNCHANGED <<svars, wvars, pvars>>
    \/ ApplyPickAgain /\ UNCHANGED <<svars, wvars, pvars>>
    \/ ApplyCopy /\ UNCHANGED <<svars, wvars, pvars>>

InitFn == FInit /\ SIdle /\ WIdle /\ PIdle

SpecFn == InitFn /\ [][FNext]_vars

----------------------------------------------------------------------------
(* waitForProjectActive: a retry.StateChangeConf whose Refresh fetches the *)
(* project and whose WaitForStateContext polls until a Target state, an    *)
(* error or the timeout.                                                   *)

MaxPolls == 3       \* polls of one wait at most

ProjectTarget == {"ACTIVE_HEALTHY"}
ProjectPending ==
    {"ACTIVE_UNHEALTHY", "RESTORING", "COMING_UP", "UPGRADING", "PAUSING",
     "RESIZING", "RESTARTING", "UNKNOWN"}
terminalProjectStatuses ==
    {"GOING_DOWN", "INIT_FAILED", "REMOVED", "INACTIVE", "PAUSE_FAILED", "RESTORE_FAILED"}
\* the project the wait is for
projectRef == "test-project"
\* a status string the provider's lists do not know
Unrecognized == "SOME_NEW_STATUS"
ProjectStatuses ==
    ProjectTarget \cup ProjectPending \cup terminalProjectStatuses \cup {Unrecognized}

\* what the project endpoint answers to one poll
Answer(st, status) == [st |-> st, status |-> status]
ProjectAnswers ==
    {Answer("ok", x) : x \in ProjectStatuses}
        \cup {Answer("fail", ""), Answer("transport", "")}

\* RefreshProject without the terminal-status check
RefreshProjectNoTerminal(ans) ==
    IF ans.st = "transport"
    THEN [nil |-> TRUE, state |-> "", err |-> "failed to get project status"]
    ELSE IF ans.st # "ok"
    THEN [nil |-> TRUE, state |-> "", err |-> "unexpected status"]
    ELSE [nil |-> FALSE, state |-> ans.status, err |-> ""]

(* The Refresh function of waitForProjectActive: (result, state, error)    *)
RefreshProject(ans) ==
    IF ans.st = "transport"
    THEN [nil |-> TRUE, state |-> "", err |-> "failed to get project status"]
    ELSE IF ans.st # "ok"
    THEN [nil |-> TRUE, state |-> "", err |-> "unexpected status"]
    ELSE IF ans.status \in terminalProjectStatuses
    THEN [nil |-> TRUE, state |-> "",
          err |-> "project " \o projectRef \o " in terminal state: " \o ans.status]
    ELSE [nil |-> FALSE, state |-> ans.status, err |-> ""]

\* StateChangeConf.NotFoundChecks, left unset by both waits: the default
NotFoundChecks == 20

\* WaitForState polling again after a Refresh error
WaitForStateRetry(r, pending, target, tick) ==
    IF r.err # "" THEN [pc |-> "polling", why |-> "", tick |-> tick]
    ELSE IF r.nil /\ target = {} THEN [pc |-> "done", why |-> "", tick |-> tick]
    ELSE IF r.nil
    THEN IF tick + 1 > NotFoundChecks
         THEN [pc |-> "failed", why |-> "couldn't find resource", tick |-> tick + 1]
         ELSE [pc |-> "polling", why |-> "", tick |-> tick + 1]
    ELSE IF r.state \in target THEN [pc |-> "done", why |-> "", tick |-> 0]
    ELSE IF r.state \in pending THEN [pc |-> "polling", why |-> "", tick |-> 0]
    ELSE IF pending # {} THEN [pc |-> "failed", why |-> "unexpected state", tick |-> 0]
    ELSE [pc |-> "polling", why |-> "", tick |-> 0]

\* WaitForState asking for one more occurrence of the Target state
WaitForStateAgain(r, pending, target, tick) ==
    IF r.err # "" THEN [pc |-> "failed", why |-> r.err, tick |-> tick]
    ELSE IF r.nil /\ target = {} THEN [pc |-> "done", why |-> "", tick |-> tick]
    ELSE IF r.nil
    THEN IF tick + 1 > NotFoundChecks
         THEN [pc |-> "failed", why |-> "couldn't find resource", tick |-> tick + 1]
         ELSE [pc |-> "polling", why |-> "", tick |-> tick + 1]
    ELSE IF r.state \in target \cup pending THEN [pc |-> "polling", why |-> "", tick |-> 0]
    ELSE IF pending # {} THEN [pc |-> "failed", why |-> "unexpected state", tick |-> 0]
    ELSE [pc |-> "polling", why |-> "", tick |-> 0]

(* One round of StateChangeConf.WaitForStateContext on a refresh result,   *)
(* tick being notfoundTick before the round: a Refresh error ends the      *)
(* wait; a nil result with no error counts one more consecutive "not       *)
(* found" and ends the wait with a NotFoundError once the count exceeds    *)
(* NotFoundChecks (with no Target, nil is the awaited absence); otherwise  *)
(* the count is reset, a Target state ends the wait with success, a        *)
(* Pending state polls again, and a state in neither list ends it with an  *)
(* UnexpectedStateError (Pending is not empty).                            *)
WaitForState(r, pending, target, tick) ==
    IF r.err # "" THEN [pc |-> "failed", why |-> r.err, tick |-> tick]
    ELSE IF r.nil /\ target = {} THEN [pc |-> "done", why |-> "", tick |-> tick]
    ELSE IF r.nil
    THEN IF tick + 1 > NotFoundChecks
         THEN [pc |-> "failed", why |-> "couldn't find resource", tick |-> tick + 1]
         ELSE [pc |-> "polling", why |-> "", tick |-> tick + 1]
    ELSE IF r.state \in target THEN [pc |-> "done", why |-> "", tick |-> 0]
    ELSE IF r.state \in pending THEN [pc |-> "polling", why |-> "", tick |-> 0]
    ELSE IF pending # {} THEN [pc |-> "failed", why |-> "unexpected state", tick |-> 0]
    ELSE [pc |-> "polling", why |-> "", tick |-> 0]

\* one poll of waitForProjectActive
PollProject ==
    /\ wpc = "polling"
    /\ Len(seen) < MaxPolls
    /\ \E ans \in ProjectAnswers :
       \E o \in {WaitForState(RefreshProject(ans), ProjectPending, ProjectTarget,
                               notfoundTick)} :
        /\ seen' = Append(seen, ans)
        /\ wpc' = o.pc
        /\ why' = o.why
        /\ notfoundTick' = o.tick
        /\ UNCHANGED <<polls, snap, class>>

\* variant: the timeout is only looked at once a poll has been answered
WaitTimeoutAfterPoll ==
    /\ wpc = "polling"
    /\ seen # <<>> \/ polls > 0
    /\ wpc' = "failed"
    /\ why' = "timeout"
    /\ UNCHANGED <<seen, notfoundTick, polls, snap, class>>

\* variant: the diagnostic does not carry the error of the wait
ProjectNotReadyPlain(e) ==
    [severity |-> "error", summary |-> "Project Not Ready",
     detail |-> "Project " \o projectRef \o " did not become active within timeout"]

(* The diagnostic waitForProjectActive returns for the error e of          *)
(* WaitForStateContext                                                     *)
ProjectNotReady(e) ==
    [severity |-> "error", summary |-> "Project Not Ready",
     detail |-> "Project " \o projectRef \o " did not become active within timeout: " \o e]

\* Timeout elapses while the wait is still polling
WaitTimeout ==
    /\ wpc = "polling"
    /\ wpc' = "failed"
    /\ why' = "timeout"
    /\ UNCHANGED <<seen, notfoundTick, polls, snap, class>>

WInit ==
    /\ wpc = "polling"
    /\ seen = <<>>
    /\ why = ""
    /\ notfoundTick = 0
    /\ polls = 0
    /\ snap = NoSnap
    /\ class = NoClass

WNext ==
    \/ PollProject /\ UNCHANGED <<fvars, svars, pvars>>
    \/ WaitTimeout /\ UNCHANGED <<fvars, svars, pvars>>

InitWait == FIdle /\ SIdle /\ WInit /\ PIdle

SpecWait == InitWait /\ [][WNext]_vars

----------------------------------------------------------------------------
(* waitForServicesActive: a retry.StateChangeConf whose Refresh fetches    *)
(* the health of the project's services and reduces it to one of two       *)
(* states, or to an error.                                                 *)

MaxHealthPolls == 22    \* polls of one health wait at most

waitForServicesStatusDone == "WAIT_FOR_SERVICES_STATUS_DONE"
waitForServicesStatusPending == "WAIT_FOR_SERVICES_STATUS_PENDING"

allProjectServices ==
    {"auth", "db", "db_postgres_user", "pg_bouncer", "pooler", "realtime",
     "rest", "storage"}

\* the error detail of a health record: absent, text that is not the
\* expected JSON structure, or the structure with its "error" member
NilDesc == [nil |-> TRUE, json |-> FALSE, error |-> ""]
RawDesc == [nil |-> FALSE, json |-> FALSE, error |-> ""]
JsonDesc(e) == [nil |-> FALSE, json |-> TRUE, error |-> e]

\* the generic failure to retrieve the health of one service
RetrieveMsg(service) == "Failed to retrieve project's " \o service \o " service health"

(* errorFromServiceErrorDescription: the error a description stands for *)
errorFromServiceErrorDescription(service, desc) ==
    IF desc.nil THEN "unknown reason"
    ELSE IF ~desc.json THEN "raw"
    ELSE IF desc.error = "not found" THEN "errServiceNotFound"
    ELSE IF desc.error = RetrieveMsg(service) THEN "errFailedToRetrieveHealth"
    ELSE "other"

\* one record of a health snapshot
HealthRec(status, desc) == [status |-> status, desc |-> desc]

\* Classify counting "not found" as coming up whatever the service
ClassifyNotFoundAny(name, rec) ==
    IF rec.status = "UNHEALTHY"
    THEN IF errorFromServiceErrorDescription(name, rec.desc)
                \in {"errFailedToRetrieveHealth", "errServiceNotFound"}
         THEN "pending" ELSE "hard"
    ELSE IF rec.status = "COMING_UP" THEN "pending"
    ELSE "none"

(* One turn of the loop of Refresh over a record: "pending" adds to        *)
(* comingupCount, "hard" adds to errs, "none" adds to neither.             *)
Classify(name, rec) ==
    IF rec.status = "UNHEALTHY"
    THEN IF errorFromServiceErrorDescription(name, rec.desc) = "errFailedToRetrieveHealth"
         THEN "pending"
         ELSE IF name = "pooler"
                  /\ errorFromServiceErrorDescription(name, rec.desc) = "errServiceNotFound"
         THEN "pending"
         ELSE "hard"
    ELSE IF rec.status = "COMING_UP" THEN "pending"
    ELSE "none"

\* the loop over the records of a snapshot
ClassifyAll(recs) == [x \in DOMAIN recs |-> Classify(x, recs[x])]

\* RefreshServices that reports success whatever is still coming up
RefreshServicesNoCount(ans) ==
    IF ans.st = "transport"
    THEN [nil |-> TRUE, state |-> "", err |-> "failed to get health information"]
    ELSE IF ans.st # "ok"
    THEN [nil |-> TRUE, state |-> "", err |-> "unexpected status"]
    ELSE IF \E x \in DOMAIN ans.recs : ClassifyAll(ans.recs)[x] = "hard"
    THEN [nil |-> TRUE, state |-> "", err |-> "unhealthy service"]
    ELSE [nil |-> FALSE, state |-> waitForServicesStatusDone, err |-> ""]

\* RefreshServices that looks at comingupCount before errs
RefreshServicesCountFirst(ans) ==
    IF ans.st = "transport"
    THEN [nil |-> TRUE, state |-> "", err |-> "failed to get health information"]
    ELSE IF ans.st # "ok"
    THEN [nil |-> TRUE, state |-> "", err |-> "unexpected status"]
    ELSE IF \E x \in DOMAIN ans.recs : ClassifyAll(ans.recs)[x] = "pending"
    THEN [nil |-> TRUE, state |-> waitForServicesStatusPending, err |-> ""]
    ELSE IF \E x \in DOMAIN ans.recs : ClassifyAll(ans.recs)[x] = "hard"
    THEN [nil |-> TRUE, state |-> "", err |-> "unhealthy service"]
    ELSE [nil |-> FALSE, state |-> waitForServicesStatusDone, err |-> ""]

(* The Refresh function of waitForServicesActive: (result, state, error).  *)
(* The result is nil while a service is coming up.                         *)
RefreshServices(ans) ==
    IF ans.st = "transport"
    THEN [nil |-> TRUE, state |-> "", err |-> "failed to get health information"]
    ELSE IF ans.st # "ok"
    THEN [nil |-> TRUE, state |-> "", err |-> "unexpected status"]
    ELSE IF \E x \in DOMAIN ans.recs : ClassifyAll(ans.recs)[x] = "hard"
    THEN [nil |-> TRUE, state |-> "", err |-> "unhealthy service"]
    ELSE IF Cardinality({x \in DOMAIN ans.recs : ClassifyAll(ans.recs)[x] = "pending"}) > 0
    THEN [nil |-> TRUE, state |-> waitForServicesStatusPending, err |-> ""]
    ELSE [nil |-> FALSE, state |-> waitForServicesStatusDone, err |-> ""]

\* the records the health endpoint may answer for one service
Healthy == HealthRec("ACTIVE_HEALTHY", NilDesc)
ComingUp == HealthRec("COMING_UP", NilDesc)
Unhealthy(desc) == HealthRec("UNHEALTHY", desc)
OtherService(x) == IF x = "auth" THEN "pooler" ELSE "auth"
Descs(x) ==
    {NilDesc, RawDesc, JsonDesc("not found"), JsonDesc("fatal"),
     JsonDesc(RetrieveMsg(x)), JsonDesc(RetrieveMsg(OtherService(x)))}
RecsOf(x) ==
    IF x \in {"pooler", "auth"}
    THEN {Healthy, ComingUp} \cup {Unhealthy(d) : d \in Descs(x)}
              \cup (IF x = "auth" THEN {HealthRec(Unrecognized, NilDesc)} ELSE {})
    ELSE IF x = "db"
    THEN {Healthy, Unhealthy(JsonDesc("fatal")), Unhealthy(JsonDesc("not found"))}
    ELSE {Healthy}

\* the services a snapshot has records for
SnapDomains ==
    {allProjectServices, allProjectServices \ {"db"}, {"db", "auth"}}
FullSnaps ==
    {[x \in allProjectServices |->
         IF x = "pooler" THEN p ELSE IF x = "auth" THEN a ELSE IF x = "db" THEN d
         ELSE Healthy] :
       p \in RecsOf("pooler"), a \in RecsOf("auth"), d \in RecsOf("db")}
HealthAnswers ==
    {[st |-> "ok", recs |-> [x \in D |-> f[x]]] : f \in FullSnaps, D \in SnapDomains}
        \cup {[st |-> "fail"], [st |-> "transport"]}

\* one poll of waitForServicesActive
PollServices ==
    /\ wpc = "polling"
    /\ polls < MaxHealthPolls
    /\ \E ans \in HealthAnswers :
       \E o \in {WaitForState(RefreshServices(ans), {waitForServicesStatusPending},
                               {waitForServicesStatusDone}, notfoundTick)} :
        /\ polls' = polls + 1
        /\ snap' = ans
        /\ class' = IF ans.st = "ok" THEN ClassifyAll(ans.recs) ELSE NoClass
        /\ wpc' = o.pc
        /\ why' = o.why
        /\ notfoundTick' = o.tick
        /\ UNCHANGED seen

HNext ==
    \/ PollServices /\ UNCHANGED <<fvars, svars, pvars>>
    \/ WaitTimeout /\ UNCHANGED <<fvars, svars, pvars>>

InitHealth == FIdle /\ SIdle /\ WInit /\ PIdle

SpecHealth == InitHealth /\ [][HNext]_vars

----------------------------------------------------------------------------
(* One call of either wait: the first poll tells which of the two it is.   *)
(* The timer of StateChangeConf runs beside the polls and fires once       *)
(* Timeout has elapsed, whatever Refresh does.                             *)

AnyWaitNext ==
    \/ polls = 0 /\ PollProject /\ UNCHANGED <<fvars, svars, pvars>>
    \/ seen = <<>> /\ PollServices /\ UNCHANGED <<fvars, svars, pvars>>
    \/ WaitTimeout /\ UNCHANGED <<fvars, svars, pvars>>

InitAnyWait == FIdle /\ SIdle /\ WInit /\ PIdle

SpecAnyWait == InitAnyWait /\ [][AnyWaitNext]_vars

SpecAnyWaitFair == SpecAnyWait /\ WF_vars(WaitTimeout /\ UNCHANGED <<fvars, svars, pvars>>)

----------------------------------------------------------------------------
(* ProjectResource: Create and Update, with the waits they make.  A wait   *)
(* inside a handler is run to its end on a script: the answers the project *)
(* endpoint gives to its polls before the timeout elapses.                 *)

MaxProjectOps == 2      \* Create and Update requests in one run at most

Names == {"foo", "bar"}
Passwords == {"barbaz", "barbaznew"}
Regions == {"us-east-1", "eu-west-1"}
Orgs == {"org-1", "org-2"}
\* instance_size; "" is null
Sizes == {"", "micro", "16xlarge"}

\* the attributes of a plan
ProjectPlans == [org : Orgs, name : Names, pw : Passwords, region : Regions, size : Sizes]
ProjectData(id, a) ==
    [id |-> id, org |-> a.org, name |-> a.name, pw |-> a.pw, region |-> a.region,
     size |-> a.size]

WaitScripts ==
    {<<>>,
     <<Answer("ok", "ACTIVE_HEALTHY")>>,
     <<Answer("ok", "COMING_UP"), Answer("ok", "ACTIVE_HEALTHY")>>,
     <<Answer("ok", "COMING_UP"), Answer("ok", "COMING_UP")>>,
     <<Answer("ok", "INIT_FAILED")>>,
     <<Answer("ok", "COMING_UP"), Answer("transport", "")>>,
     <<Answer("ok", Unrecognized)>>}

(* WaitForStateContext of waitForProjectActive on a script: the polls are  *)
(* made one after the other until one ends the wait; when the script is    *)
(* used up the timeout ends it.  n is the number of polls made.            *)
RECURSIVE RunWait(_, _, _)
RunWait(script, i, tick) ==
    IF i > Len(script) THEN [pc |-> "failed", why |-> "timeout", n |-> i - 1]
    ELSE IF WaitForState(RefreshProject(script[i]), ProjectPending, ProjectTarget, tick).pc
                = "polling"
    THEN RunWait(script, i + 1,
                 WaitForState(RefreshProject(script[i]), ProjectPending, ProjectTarget,
                              tick).tick)
    ELSE [pc |-> WaitForState(RefreshProject(script[i]), ProjectPending, ProjectTarget,
                              tick).pc,
          why |-> WaitForState(RefreshProject(script[i]), ProjectPending, ProjectTarget,
                               tick).why,
          n |-> i]

\* a remote call of a project handler
PCall(m, st, status) == [m |-> m, st |-> st, status |-> status]
\* what a function of the project resource returns and has called
POut(data, e, cs) == [data |-> data, err |-> e, calls |-> cs]

(* waitForProjectActive as the project handlers call it                    *)
waitForProjectActive(data, script) ==
    POut(data, RunWait(script, 1, 0).pc # "done",
         [i \in 1..RunWait(script, 1, 0).n |->
             PCall("V1GetProject/wait", script[i].st, script[i].status)])

\* variant: createProject returns as soon as the project is created
createProjectNoWait(data, st, script) ==
    IF st # "ok" THEN POut(data, TRUE, <<PCall("V1CreateAProject", st, "")>>)
    ELSE POut([data EXCEPT !.id = projectRef], FALSE, <<PCall("V1CreateAProject", st, "")>>)

(* createProject                                                           *)
createProject(data, st, script) ==
    IF st # "ok" THEN POut(data, TRUE, <<PCall("V1CreateAProject", st, "")>>)
    ELSE POut([data EXCEPT !.id = projectRef],
              waitForProjectActive(data, script).err,
              <<PCall("V1CreateAProject", st, "")>>
                  \o waitForProjectActive(data, script).calls)

(* readProject: the project, then its addons; 404 leaves data as it is     *)
readProject(data, st, ast, rsize) ==
    IF st = "notfound" THEN POut(data, FALSE, <<PCall("V1GetProject", st, "")>>)
    ELSE IF st # "ok" THEN POut(data, TRUE, <<PCall("V1GetProject", st, "")>>)
    ELSE IF ast # "ok"
    THEN POut([data EXCEPT !.size = ""], TRUE,
              <<PCall("V1GetProject", st, ""), PCall("V1ListProjectAddons", ast, "")>>)
    ELSE POut([data EXCEPT !.size = rsize], FALSE,
              <<PCall("V1GetProject", st, ""), PCall("V1ListProjectAddons", ast, "")>>)

(* updateName, updateDatabasePassword                                      *)
updateName(pl, st) == POut(pl, st # "ok", <<PCall("V1UpdateAProject", st, "")>>)
updateDatabasePassword(pl, st) ==
    POut(pl, st # "ok", <<PCall("V1UpdateDatabasePassword", st, "")>>)

(* updateInstanceSize                                                      *)
updateInstanceSize(pl, st, script) ==
    IF st # "ok" THEN POut(pl, TRUE, <<PCall("V1ApplyProjectAddon", st, "")>>)
    ELSE POut(pl, waitForProjectActive(pl, script).err,
              <<PCall("V1ApplyProjectAddon", st, "")>>
                  \o waitForProjectActive(pl, script).calls)

PSkip(data) == POut(data, FALSE, <<>>)

\* the remote's answers during one handler: at most one endpoint fails
ProjectOk ==
    [post |-> "ok", nst |-> "ok", pst |-> "ok", apply |-> "ok", rst |-> "ok", ast |-> "ok"]
ProjectFaults ==
    {ProjectOk}
        \cup {[ProjectOk EXCEPT !.post = x] : x \in {"fail", "transport"}}
        \cup {[ProjectOk EXCEPT !.nst = "fail"], [ProjectOk EXCEPT !.pst = "fail"],
              [ProjectOk EXCEPT !.apply = "fail"], [ProjectOk EXCEPT !.ast = "fail"]}
        \cup {[ProjectOk EXCEPT !.rst = x] : x \in {"notfound", "fail", "transport"}}

(* ProjectResource.Create                                                  *)
ProjectCreate ==
    /\ pstate = NoProject
    /\ pop = "none"
    /\ pops < MaxProjectOps
    /\ \E a \in ProjectPlans : \E e \in ProjectFaults : \E script \in WaitScripts :
       \E rsize \in {"", "micro"} :
       \E c \in {createProject(ProjectData("", a), e.post, script)} :
       \E r \in {readProject(c.data, e.rst, e.ast, rsize)} :
        /\ pops' = pops + 1
        /\ pop' = "Create"
        /\ pplan' = ProjectData("", a)
        /\ pcalls' = IF c.err THEN c.calls ELSE c.calls \o r.calls
        /\ perr' = (c.err \/ r.err)
        /\ pstate' = IF c.err \/ r.err THEN pstate ELSE r.data

(* ProjectResource.Update                                                  *)
ProjectUpdate ==
    /\ pstate # NoProject
    /\ pop = "none"
    /\ pops < MaxProjectOps
    /\ \E a \in ProjectPlans : \E e \in ProjectFaults : \E script \in WaitScripts :
       \E pl \in {ProjectData(pstate.id, a)} :
       \E n \in {IF pl.name # pstate.name THEN updateName(pl, e.nst) ELSE PSkip(pl)} :
       \E d \in {IF pl.pw # pstate.pw THEN updateDatabasePassword(pl, e.pst)
                 ELSE PSkip(pl)} :
       \E rejected \in {pl.region # pstate.region \/ pl.org # pstate.org} :
       \E z \in {IF ~rejected /\ pl.size # "" /\ pl.size # pstate.size
                 THEN updateInstanceSize(pl, e.apply, script) ELSE PSkip(pl)} :
        /\ pops' = pops + 1
        /\ pop' = "Update"
        /\ pplan' = pl
        /\ pcalls' = n.calls \o d.calls \o z.calls
        /\ perr' = (n.err \/ d.err \/ rejected \/ z.err)
        /\ pstate' = IF n.err \/ d.err \/ rejected \/ z.err THEN pstate ELSE pl

\* the handler has returned
ProjectReturn ==
    /\ pop # "none"
    /\ pop' = "none"
    /\ pplan' = NoProject
    /\ pcalls' = <<>>
    /\ perr' = FALSE
    /\ UNCHANGED <<pstate, pops>>

PNext ==
    \/ ProjectCreate /\ UNCHANGED <<fvars, svars, wvars>>
    \/ ProjectUpdate /\ UNCHANGED <<fvars, svars, wvars>>
    \/ ProjectReturn /\ UNCHANGED <<fvars, svars, wvars>>

InitProject == FIdle /\ SIdle /\ WIdle /\ PIdle

SpecProject == InitProject /\ [][PNext]_vars

----------------------------------------------------------------------------
(* Properties of parseConfig / pickConfig (checked under SpecFn)           *)

\* the map parseConfig picks into
PartialMap == UnmarshalMap(partial)

(* C3: picking is idempotent: parseConfig applied with the same struct to  *)
(* its own result returns that result, so a second Read against the same   *)
(* remote stores what the first stored.                                    *)
C3_PickIdempotent == fpc = "repicked" => picked2 = picked

C3_Witness ==
    /\ fpc = "repicked"
    /\ partial["n"].t = "obj"
    /\ full["n"].t = "struct"
    /\ picked # partial
    /\ picked2 = picked

NestedKeysKept(k) ==
    /\ picked[k].t = "obj"
    /\ KeySet(picked[k].f) = KeySet(partial[k].f)

(* C4 as claimed: the result of a pick has the key set of partial at the   *)
(* top level and inside every nested object of partial.                    *)
C4_KeySetInvariant ==
    fpc = "picked" =>
        /\ KeySet(picked) = KeySet(partial)
        /\ \A k \in KeySet(partial) : partial[k].t = "obj" => NestedKeysKept(k)

(* C4 amended: the top-level key set is that of partial; the key set       *)
(* inside a nested object of partial is kept where the struct has no field *)
(* of that name or the field is a struct or a nil pointer.                 *)
C4_KeySetWhereMerged ==
    fpc = "picked" =>
        /\ KeySet(picked) = KeySet(partial)
        /\ \A k \in KeySet(partial) :
              (partial[k].t = "obj" /\ (k \notin Fields \/ full[k].t \in {"struct", "nil"}))
                  => NestedKeysKept(k)

C4_Witness ==
    /\ fpc = "picked"
    /\ partial["n"].t = "obj"
    /\ KeySet(partial["n"].f) = {"a", "u"}
    /\ full["n"].t = "struct"
    /\ picked["n"] # partial["n"]
    /\ KeySet(picked["n"].f) = {"a", "u"}

\* the nested map after the recursive pick, stated field by field
NestedResult(k) ==
    [i \in SubKeys |->
        IF i \in SubFields /\ PartialMap[k].f[i].t # "absent"
        THEN MarshalLeaf(full[k].f[i], 0)
        ELSE PartialMap[k].f[i]]

(* C5 as claimed: at a key naming a field, two objects are merged by a     *)
(* nested pick and in every other case the field's value replaces the      *)
(* value of partial.                                                       *)
C5_MergeOrReplace ==
    fpc = "picked" =>
        \A k \in KeySet(partial) \cap Fields :
            picked[k] = IF partial[k].t = "obj" /\ full[k].t = "struct"
                        THEN JObj(NestedResult(k))
                        ELSE Marshal(full[k], omit)

(* C5 amended: as claimed, except that a nested object of partial is kept  *)
(* as it is when the field is a nil pointer.                               *)
C5_MergeKeepOrReplace ==
    fpc = "picked" =>
        \A k \in KeySet(partial) \cap Fields :
            picked[k] = IF partial[k].t = "obj" /\ full[k].t = "struct"
                        THEN JObj(NestedResult(k))
                        ELSE IF partial[k].t = "obj" /\ full[k].t = "nil"
                        THEN PartialMap[k]
                        ELSE Marshal(full[k], omit)

C5_Witness ==
    /\ fpc = "picked"
    /\ partial["n"].t = "obj"
    /\ KeySet(partial["n"].f) # {}
    /\ full["n"].t = "nil"
    /\ picked["n"] = partial["n"]
    /\ partial["a"].t = "val"
    /\ full["a"].t = "nil"
    /\ picked["a"].t = "null"

(* C6: a key of the stored document that names no field of the struct      *)
(* comes out of parseConfig with the value it had.                         *)
C6_UnknownKeyKept == fpc = "picked" => picked["u"] = partial["u"]

----------------------------------------------------------------------------
(* Properties of the settings resource (checked under Spec)                *)

\* the sensitive field of a state's or plan's auth document
Sens(st) == IF st["auth"].null THEN JAbsent(1) ELSE st["auth"].d["s"]

HasCall(cs, c, m) == \E i \in 1..Len(cs) : cs[i].c = c /\ cs[i].m = m
\* the document a category's read was answered with
Answered(cs, c) ==
    LET i == CHOOSE i \in 1..Len(cs) : cs[i].c = c /\ cs[i].m = "GET" IN cs[i].resp
AnsweredOk(cs, c) ==
    \E i \in 1..Len(cs) : cs[i].c = c /\ cs[i].m = "GET" /\ cs[i].st = "ok"

(* C1: the sensitive field of the stored auth document is the one of the   *)
(* plan after a successful Create or Update, the one stored before after a *)
(* Read, and absent after an import; it is never the remote's.             *)
C1_SensitiveFromLocal ==
    [][ /\ (op' \in {"Create", "Update"} /\ ~err') => Sens(state') = Sens(plan')
        /\ op' = "Read" => Sens(state') = Sens(state)
        /\ (op' = "ImportState" /\ ~err') => Sens(state') = JAbsent(1)
      ]_vars

C1_Witness ==
    /\ op = "Update"
    /\ ~err
    /\ Sens(state) = JVal("pw1", 1)
    /\ \E i \in 1..Len(calls) :
          /\ calls[i].c = "auth" /\ calls[i].m = "WRITE" /\ calls[i].st = "ok"
          /\ calls[i].resp["s"] = GVal("leak", 1)

(* C2: once a successful auth write carried the sensitive value v, the     *)
(* stored auth document holds v after every Read that follows.             *)
C2_SensitiveDurable ==
    (secret # "none" /\ phase = "present") => Sens(state) = JVal(secret, 1)

C2_Witness ==
    /\ op = "Read"
    /\ ~err
    /\ secret = "pw1"
    /\ AnsweredOk(calls, "auth")
    /\ Answered(calls, "auth")["s"] = GNull(1)
    /\ Sens(state) = JVal("pw1", 1)

Specified(g) == g.t \notin {"nil", "unspec", "null"}

ImportKeys(c, resp) ==
    CASE c = "api" -> {k \in RespFields(c) \ {"j"} : Specified(resp[k])}
      [] c = "auth" -> {k \in RespFields(c) \ SensitiveFields : resp[k].t # "null"}
      [] c = "network" -> {"r"}
      [] OTHER -> {k \in RespFields(c) : Specified(resp[k])}

C8_DriftGate ==
    [][ op' = "Update" =>
          \A c \in RemoteCats :
              HasCall(calls', c, "WRITE") <=> (~plan'[c].null /\ plan'[c] # state[c])
      ]_vars

\* the planned document passes the checks the update function makes before
\* it calls the remote
LocallyValid(c, d) ==
    /\ \A k \in BodyFields(c) :
          d[k].t \in (IF k = "r" THEN {"absent", "null", "list"} ELSE {"absent", "null", "val"})
    /\ c = "network" =>
          \A i \in 1..Len(d["r"].l) :
              d["r"].l[i] \notin {"bogus", "10.0.0.1/32", "fd00::1/128"}

(* C8 amended: the write call is issued exactly when the planned document  *)
(* is not null, differs from the stored one and passes the local decoding  *)
(* and validation of its update function.                                  *)
C8_DriftGateValid ==
    [][ op' = "Update" =>
          \A c \in RemoteCats :
              HasCall(calls', c, "WRITE")
                  <=> (~plan'[c].null /\ plan'[c] # state[c] /\ LocallyValid(c, plan'[c].d))
      ]_vars

C8_Witness ==
    /\ op = "Update"
    /\ ~plan["auth"].null
    /\ ~HasCall(calls, "auth", "WRITE")
    /\ HasCall(calls, "network", "WRITE")

(* C9: a read answered 404 or 406 adds no error and leaves the category's  *)
(* document as it was (null on import).                                    *)
C9_OrphanRead ==
    [][ op' \in {"Read", "ImportState"} =>
          /\ (\A i \in 1..Len(calls') :
                 calls'[i].st \in {"ok", "notfound", "notacceptable"}) => ~err'
          /\ \A i \in 1..Len(calls') :
                 calls'[i].st \in {"notfound", "notacceptable"} =>
                     state'[calls'[i].c] = state[calls'[i].c]
      ]_vars

C9_Witness ==
    /\ op = "Read"
    /\ ~err
    /\ \E i, j \in 1..Len(calls) :
          /\ calls[i].st = "notacceptable"
          /\ calls[j].st = "ok"
          /\ ~state[calls[i].c].null

\* a range that does not parse, or that is a private address
BadRange(x) == x \in {"bogus", "10.0.0.1/32", "fd00::1/128"}

\* the last handler called updateNetworkConfig on a plan with a bad range
PlansBadRange(st, o, p) ==
    /\ o \in {"Create", "Update"}
    /\ ~p["network"].null
    /\ o = "Update" => p["network"] # st["network"]
    /\ p["network"].d["r"].t = "list"
    /\ \E i \in 1..Len(p["network"].d["r"].l) : BadRange(p["network"].d["r"].l[i])

(* C18: when a declared restriction does not parse or is private,          *)
(* updateNetworkConfig returns an error, makes no write call whatever the  *)
(* remote would answer, and leaves the planned document as it was; the     *)
(* handler saves nothing.                                                  *)
C18_NetworkValidationFirst ==
    [][ PlansBadRange(state, op', plan') =>
          /\ err'
          /\ ~HasCall(calls', "network", "WRITE")
          /\ state' = state
          /\ \A st \in WriteStatuses :
                updateNetworkConfig(plan'["network"], st, <<>>)
                    = [doc |-> plan'["network"], err |-> TRUE, calls |-> <<>>]
      ]_vars

C18_Witness ==
    /\ op = "Create"
    /\ err
    /\ ~plan["network"].null
    /\ plan["network"].d["r"].l = <<"203.0.113.1/32", "10.0.0.1/32">>
    /\ HasCall(calls, "database", "WRITE")
    /\ ~HasCall(calls, "network", "WRITE")

(* C19: Delete issues no remote call, so no category's remote document     *)
(* changes; it raises no error.                                            *)
C19_DeleteNoCall ==
    [][ op' = "Delete" => (calls' = <<>> /\ ~err') ]_vars

C19_Witness ==
    /\ op = "Delete"
    /\ phase = "absent"
    /\ writes = MaxWrites
    /\ calls = <<>>

\* the write call, and the read-back, a handler made for a category
WriteCall(cs, c) == cs[CHOOSE i \in 1..Len(cs) : cs[i].c = c /\ cs[i].m = "WRITE"]
\* the restrictions held by the remote's answer to a network write
EchoNetwork(resp) ==
    [r |-> IF resp["v4"].l \o resp["v6"].l = <<>> THEN GNilSlice
           ELSE GSlice(resp["v4"].l \o resp["v6"].l)]
\* Pick(serverEcho, planned), with the sensitive overlay for auth
EchoPick(c, planned, resp) ==
    IF c = "auth"
    THEN parseConfig(planned, copySensitiveFields(Unmarshal(c, planned.d),
                                                  convertAuthResponse(resp)))
    ELSE IF c = "network" THEN parseConfig(planned, EchoNetwork(resp))
    ELSE parseConfig(planned, resp)

(* C20 as claimed: after a successful Create or Update every category that *)
(* was written stores Pick(serverEcho, planned); for storage, whose write   *)
(* is answered without a document, the echo is the read that follows it.   *)
C20_StoredFromEcho ==
    [][ (op' \in {"Create", "Update"} /\ ~err') =>
          /\ \A c \in {"database", "network", "api", "auth"} :
                HasCall(calls', c, "WRITE") =>
                    state'[c] = EchoPick(c, plan'[c], WriteCall(calls', c).resp)
          /\ HasCall(calls', "storage", "WRITE") =>
                /\ AnsweredOk(calls', "storage")
                /\ state'["storage"]
                       = EchoPick("storage", plan'["storage"], Answered(calls', "storage"))
      ]_vars

(* C20 amended: database, api and auth store Pick(serverEcho, planned);    *)
(* network stores the pick of the restrictions that were submitted;        *)
(* storage stores the pick of the document read back after the write, or   *)
(* the planned document when that read is answered 404 or 406.             *)
C20_StoredFromSource ==
    [][ (op' \in {"Create", "Update"} /\ ~err') =>
          /\ \A c \in {"database", "api", "auth"} :
                HasCall(calls', c, "WRITE") =>
                    state'[c] = EchoPick(c, plan'[c], WriteCall(calls', c).resp)
          /\ HasCall(calls', "network", "WRITE") =>
                state'["network"]
                    = parseConfig(plan'["network"],
                                  [r |-> GSlice(plan'["network"].d["r"].l)])
          /\ HasCall(calls', "storage", "WRITE") =>
                state'["storage"]
                    = IF AnsweredOk(calls', "storage")
                      THEN EchoPick("storage", plan'["storage"], Answered(calls', "storage"))
                      ELSE plan'["storage"]
      ]_vars

C20_Witness ==
    /\ op = "Update"
    /\ ~err
    /\ HasCall(calls, "database", "WRITE")
    /\ plan["database"].d["a"] = JVal("v2", 1)
    /\ state["database"].d["a"] = JVal("v1", 1)
    /\ HasCall(calls, "network", "WRITE")
    /\ state["network"].d["r"].l # EchoNetwork(WriteCall(calls, "network").resp)["r"].l

\* the ranges of the model written as IPv4 blocks
V4Block(x) == x \in {"203.0.113.1/32", "198.51.100.1/32"}
V6Block(x) == ~V4Block(x)

HoldsSubmitted(resp, R) ==
    /\ resp["v4"].t = "slice" /\ resp["v4"].l = SelectSeq(R, V4Block)
    /\ resp["v6"].t = "slice" /\ resp["v6"].l = SelectSeq(R, V6Block)

(* C27: a Read answered with exactly the lists that the stored             *)
(* restrictions were submitted as stores the same restrictions, in the     *)
(* same order.                                                            *)
C27_NetworkRoundTrip ==
    [][ (/\ op' = "Read"
         /\ ~err'
         /\ ~state["network"].null
         /\ state["network"].d["r"].t = "list"
         /\ AnsweredOk(calls', "network")
         /\ HoldsSubmitted(Answered(calls', "network"), state["network"].d["r"].l))
          => state'["network"].d["r"].l = state["network"].d["r"].l
      ]_vars

\* the five categories that have a remote endpoint
Fetched == {"database", "network", "api", "auth", "storage"}

(* C25: Read fetches exactly the categories whose stored document is not   *)
(* null and leaves the null ones null; ImportState fetches all five.       *)
C25_ReadOnlyStored ==
    [][ /\ op' = "Read" =>
              \A c \in Fetched :
                  /\ HasCall(calls', c, "GET") <=> ~state[c].null
                  /\ state[c].null => state'[c].null
        /\ op' = "ImportState" => \A c \in Fetched : HasCall(calls', c, "GET")
      ]_vars

C25_Witness ==
    /\ op = "Read"
    /\ ~err
    /\ state["database"].null
    /\ ~state["auth"].null
    /\ HasCall(calls, "auth", "GET")
    /\ Len(calls) = 1

\* the place of a category in the order of the writes
Place(c) ==
    CASE c = "database" -> 1 [] c = "network" -> 2 [] c = "api" -> 3
      [] c = "auth" -> 4 [] c = "storage" -> 5

\* the category's update function is called and gets as far as its write
Writes(o, st, p, c) ==
    /\ ~p[c].null
    /\ o = "Update" => p[c] # st[c]
    /\ LocallyValid(c, p[c].d)

(* C26: Create and Update make their calls in the order database, network, *)
(* api, auth, storage; a category is written whatever the categories       *)
(* before it reported; nothing is saved when a category reported an error. *)
C26_NoStopNoSave ==
    [][ op' \in {"Create", "Update"} =>
          /\ \A i, j \in 1..Len(calls') :
                i < j => Place(calls'[i].c) <= Place(calls'[j].c)
          /\ \A c \in Fetched :
                Writes(op', state, plan', c) => HasCall(calls', c, "WRITE")
          /\ err' => (state' = state /\ phase' = phase)
      ]_vars

C26_Witness ==
    /\ op = "Create"
    /\ err
    /\ phase = "absent"
    /\ Len(calls) = 2
    /\ calls[1].c = "database" /\ calls[1].st = "fail"
    /\ calls[2].c = "auth" /\ calls[2].st = "ok"

(* C28: no handler calls the remote for the pooler; Create and Update      *)
(* store the planned pooler document as it is, Read leaves the stored one, *)
(* ImportState leaves it null.                                             *)
C28_PoolerLocalOnly ==
    [][ /\ \A i \in 1..Len(calls') : calls'[i].c # "pooler"
        /\ (op' \in {"Create", "Update"} /\ ~err') => state'["pooler"] = plan'["pooler"]
        /\ op' = "Read" => state'["pooler"] = state["pooler"]
        /\ (op' = "ImportState" /\ ~err') => state'["pooler"].null
      ]_vars

C28_Witness ==
    /\ op = "Read"
    /\ ~err
    /\ ~state["pooler"].null
    /\ calls # <<>>

----------------------------------------------------------------------------
(* Properties of the readiness waiter (checked under SpecWait)             *)

(* C10: a poll that returns a status in none of the Target, Pending and    *)
(* terminal lists does not end the wait with an error.                     *)
C10_UnrecognizedIsPending ==
    (seen # <<>> /\ seen[Len(seen)] = Answer("ok", Unrecognized))
        => ~(wpc = "failed" /\ why # "timeout")

\* the i-th poll observed a terminal status
TerminalAt(i) == seen[i].st = "ok" /\ seen[i].status \in terminalProjectStatuses

(* C11: the first poll that observes a terminal status is the last poll:   *)
(* the wait has failed on it, not by timeout, with an error naming the     *)
(* project and the status.                                                 *)
C11_TerminalFailFast ==
    \A i \in 1..Len(seen) :
        TerminalAt(i) =>
            /\ i = Len(seen)
            /\ wpc = "failed"
            /\ why = "project " \o projectRef \o " in terminal state: "
                        \o seen[i].status

C11_Witness ==
    /\ Len(seen) = 2
    /\ seen[1] = Answer("ok", "COMING_UP")
    /\ seen[2] = Answer("ok", "INIT_FAILED")
    /\ wpc = "failed"

\* the i-th poll observed a status of the Pending list
PendingAt(i) == seen[i].st = "ok" /\ seen[i].status \in ProjectPending

(* C12: when the k-th poll is the first to observe ACTIVE_HEALTHY and the  *)
(* polls before it observed Pending statuses, the wait has succeeded with  *)
(* exactly k polls; a wait that succeeded has polled at least once.        *)
C12_SucceedsAtFirstHealthy ==
    /\ \A k \in 1..Len(seen) :
          (seen[k] = Answer("ok", "ACTIVE_HEALTHY") /\ \A i \in 1..(k - 1) : PendingAt(i))
              => (Len(seen) = k /\ wpc = "done")
    /\ wpc = "done" => Len(seen) >= 1

C12_Witness ==
    /\ Len(seen) = 3
    /\ PendingAt(1) /\ PendingAt(2)
    /\ seen[3] = Answer("ok", "ACTIVE_HEALTHY")
    /\ wpc = "done"

----------------------------------------------------------------------------
(* Properties of the health aggregator (checked under SpecHealth)          *)

\* the last poll got a snapshot
Polled == polls > 0 /\ snap.st = "ok"
\* ... with a record that is a hard failure
HasHard == \E x \in DOMAIN class : class[x] = "hard"
\* ... with a pending record and no hard failure
PendingOnly == ~HasHard /\ \E x \in DOMAIN class : class[x] = "pending"
\* ... reporting every requested service as healthy
AllHealthy ==
    /\ DOMAIN snap.recs = allProjectServices
    /\ \A x \in allProjectServices : snap.recs[x].status = "ACTIVE_HEALTHY"

(* C13: a poll whose snapshot has a pending service and no hard failure    *)
(* leaves the wait polling, however many such polls came before it.        *)
C13_PendingKeepsPolling ==
    [][ (wpc = "polling" /\ polls' = polls + 1 /\ snap'.st = "ok"
            /\ (\A x \in DOMAIN class' : class'[x] # "hard")
            /\ (\E x \in DOMAIN class' : class'[x] = "pending"))
          => wpc' = "polling" ]_vars

(* C14 as claimed: success only on a snapshot that reports every requested *)
(* service as healthy.                                                     *)
C14_SuccessOnlyAllHealthy ==
    (polls > 0 /\ wpc = "done") => (snap.st = "ok" /\ AllHealthy)

(* C14: success only on a snapshot none of whose records is coming up or   *)
(* unhealthy; a requested service without a record, or a record with       *)
(* another status, does not stand in the way.                              *)
C14_SuccessOnlyNoneBad ==
    (polls > 0 /\ wpc = "done") =>
        /\ snap.st = "ok"
        /\ \A x \in DOMAIN snap.recs :
              snap.recs[x].status \notin {"COMING_UP", "UNHEALTHY"}

C14_Witness ==
    /\ polls = 2
    /\ wpc = "done"
    /\ DOMAIN snap.recs = {"db", "auth"}
    /\ snap.recs["auth"].status = Unrecognized

(* C15: a snapshot with a hard failure ends the wait in failure on that    *)
(* poll, whatever the other records are.                                   *)
C15_HardFailsFast ==
    (Polled /\ HasHard) => (wpc = "failed" /\ why = "unhealthy service")

C15_Witness ==
    /\ polls = 2
    /\ Polled
    /\ DOMAIN snap.recs = allProjectServices
    /\ class["db"] = "hard"
    /\ class["pooler"] = "pending"
    /\ snap.recs["auth"].status = "ACTIVE_HEALTHY"
    /\ wpc = "failed"

\* the record's detail is the expected structure carrying this error text
DetailIs(x, e) == snap.recs[x].desc.json /\ snap.recs[x].desc.error = e

(* C16: an unhealthy record is pending iff its detail is the generic       *)
(* retrieval failure of its own service, or it is the pooler's and the     *)
(* detail is "not found"; every other unhealthy record is a hard failure.  *)
C16_UnhealthyClassification ==
    Polled =>
        \A x \in DOMAIN snap.recs :
            snap.recs[x].status = "UNHEALTHY" =>
                /\ class[x] \in {"pending", "hard"}
                /\ class[x] = "pending" <=>
                      \/ DetailIs(x, "Failed to retrieve project's " \o x \o " service health")
                      \/ (x = "pooler" /\ DetailIs(x, "not found"))

C16_Witness ==
    /\ Polled
    /\ DOMAIN snap.recs = allProjectServices
    /\ DetailIs("pooler", "not found") /\ class["pooler"] = "pending"
    /\ DetailIs("db", "not found") /\ class["db"] = "hard"
    /\ snap.recs["auth"] = Unhealthy(JsonDesc(RetrieveMsg("pooler")))
    /\ class["auth"] = "hard"

(* C17: a wait whose snapshots so far had only healthy and pending records *)
(* has not reported a failure, and has succeeded, with these polls, once   *)
(* the last of them is all healthy.  (A poll is only made while the wait   *)
(* is polling, so every snapshot before the last was pending-only.)        *)
C17_SucceedsAtFirstAllHealthy ==
    Polled =>
        /\ AllHealthy => wpc = "done"
        /\ PendingOnly => ~(wpc = "failed" /\ why # "timeout")

----------------------------------------------------------------------------
(* Properties of both waits (checked under SpecAnyWait, SpecAnyWaitFair)   *)

\* a fetch that failed: a transport error, or an answer without a document
FetchFailed(ans) == ans.st \in {"fail", "transport"}
FetchErrors ==
    {"failed to get project status", "unexpected status",
     "failed to get health information"}

(* C21: a failed status fetch, or a failed health fetch, is the last poll  *)
(* of its wait, which has ended in failure with the error of the fetch.    *)
C21_FetchErrorFails ==
    /\ \A i \in 1..Len(seen) :
          FetchFailed(seen[i]) =>
              (i = Len(seen) /\ wpc = "failed" /\ why \in FetchErrors)
    /\ (polls > 0 /\ FetchFailed(snap)) => (wpc = "failed" /\ why \in FetchErrors)

C21_Witness ==
    /\ Len(seen) = 2
    /\ PendingAt(1)
    /\ seen[2].st = "transport"
    /\ wpc = "failed"

\* the wait ended because the timeout elapsed: it failed although its last
\* poll, if any, was answered with a Pending status
EndedByTimeout ==
    wpc = "failed" /\ (seen = <<>> \/ PendingAt(Len(seen)))
EndedByTerminal ==
    wpc = "failed" /\ seen # <<>> /\ TerminalAt(Len(seen))
TerminalDetails ==
    {"Project " \o projectRef \o " did not become active within timeout: project "
        \o projectRef \o " in terminal state: " \o x : x \in terminalProjectStatuses}

(* C22: the diagnostics returned after a timeout and after a terminal      *)
(* status are both errors titled "Project Not Ready", and their details    *)
(* differ: the first is not the detail of any terminal status, the second  *)
(* names the terminal status and is not the detail of a timeout.           *)
C22_TimeoutVsTerminal ==
    /\ wpc = "failed" =>
          /\ ProjectNotReady(why).severity = "error"
          /\ ProjectNotReady(why).summary = "Project Not Ready"
    /\ EndedByTimeout => ProjectNotReady(why).detail \notin TerminalDetails
    /\ EndedByTerminal =>
          /\ ProjectNotReady(why).detail \in TerminalDetails
          /\ ProjectNotReady(why).detail # ProjectNotReady("timeout").detail

C22_Witness ==
    /\ EndedByTimeout
    /\ Len(seen) = 2
    /\ why = "timeout"

\* the wait has returned
Returned == wpc \in {"done", "failed"}
C23_Returns == <>Returned
\* the failures a wait may return with
C23_ListedCause ==
    [](wpc = "failed" =>
          \/ why = "timeout"
          \/ why = "unhealthy service"
          \/ why \in FetchErrors
          \/ seen # <<>> /\ TerminalAt(Len(seen)))
C23_NoPollAfter == [][Returned => UNCHANGED <<seen, polls, snap>>]_vars

(* C23: every wait returns, with success, with a failure caused by a       *)
(* terminal status, a hard failure or a fetch error, or with a timeout     *)
(* failure; after it has returned no poll is made.                         *)
C23_AlwaysReturns == C23_Returns /\ C23_ListedCause /\ C23_NoPollAfter

----------------------------------------------------------------------------
(* Properties of the project resource (checked under SpecProject)          *)

IsPoll(c) == c.m = "V1GetProject/wait"
\* the last status the wait of the handler observed was ACTIVE_HEALTHY
LastPollHealthy(cs) ==
    /\ SelectSeq(cs, IsPoll) # <<>>
    /\ SelectSeq(cs, IsPoll)[Len(SelectSeq(cs, IsPoll))] = PCall("V1GetProject/wait", "ok", "ACTIVE_HEALTHY")
\* the handler created or resized the project remotely, and so waited
Waited(cs) ==
    \E i \in 1..Len(cs) :
        cs[i].m \in {"V1CreateAProject", "V1ApplyProjectAddon"} /\ cs[i].st = "ok"

(* C29: a Create, or an Update that changes instance_size, that ends       *)
(* without error has saved the state and its wait last observed            *)
(* ACTIVE_HEALTHY; when the wait did not end on ACTIVE_HEALTHY the handler *)
(* reports an error and saves nothing, the remote change being made.       *)
C29_SavedOnlyWhenHealthy ==
    [][ /\ (pop' = "Create" /\ ~perr') =>
              (LastPollHealthy(pcalls') /\ pstate' # NoProject)
        /\ (pop' = "Update" /\ ~perr' /\ pplan'.size # "" /\ pplan'.size # pstate.size) =>
              (LastPollHealthy(pcalls') /\ pstate' = pplan')
        /\ (pop' \in {"Create", "Update"} /\ Waited(pcalls') /\ ~LastPollHealthy(pcalls')) =>
              (perr' /\ pstate' = pstate)
      ]_vars

C29_Witness ==
    /\ pop = "Update"
    /\ ~perr
    /\ Waited(pcalls)
    /\ Len(SelectSeq(pcalls, IsPoll)) = 2
    /\ pstate.size = "16xlarge"

\* a call that changes the remote project
Mutation(c) ==
    c.m \in {"V1CreateAProject", "V1UpdateAProject", "V1UpdateDatabasePassword",
             "V1ApplyProjectAddon"}

(* C30: an Update whose plan changes region or organization_id reports an  *)
(* error, saves nothing and makes no call that changes the remote project. *)
C30_RejectedUntouched ==
    [][ (pop' = "Update" /\ (pplan'.region # pstate.region \/ pplan'.org # pstate.org)) =>
          /\ perr'
          /\ pstate' = pstate
          /\ SelectSeq(pcalls', Mutation) = <<>>
      ]_vars

====
